---------------------------- MODULE Spec2Model ----------------------------
(***************************************************************************)
(* The data-access gateway of src/file.py (class DatabaseAPI) as a state   *)
(* machine.  The state is the database the gateway talks to, the gateway's *)
(* one connection (its configuration and its transaction status), the      *)
(* connection handles the gateway has opened, and the outcome of the last  *)
(* call.  Every public method is one action; a call's  *)
(* statements are applied in the order the method issues them, and any one *)
(* of them may fail in the database (input f: the number of the failing    *)
(* statement, 0 for none).                                                 *)
(*                                                                         *)
(* The class defines delete_sport twice (lines 143 and 526); the second    *)
(* definition replaces the first in the class body, so the method a caller *)
(* reaches is the one at line 526, and that is the one modelled.           *)
(* add_athlete_sql_function (line 286) only calls the SQL function         *)
(* Insert_athlete, which lives in the database and not in this file, so    *)
(* it has no action here.                                                  *)
(***************************************************************************)
EXTENDS Integers, Sequences, FiniteSets, TLC

VARIABLES db, connection, txn, gateway, last

vars == <<db, connection, txn, gateway, last>>

---------------------------------------------------------------------------
(* Bounds of the model.                                                    *)

MaxAthletes == 3
MaxCompetitions == 2
MaxPage == 2
MaxItemsPerPage == 2
\* The handles the gateway opens in one run (the constructor's and open()'s).
MaxHandles == 3

---------------------------------------------------------------------------
(* Values.                                                                 *)

\* Python's None (and SQL's NULL where a column holds it).
None == [tag |-> "None"]
IntVal(i) == [tag |-> "int", v |-> i]
StrVal(s) == [tag |-> "str", v |-> s]
\* Rows fetched from a cursor come in the shape the connection's row factory
\* gives them: a mapping from column name to value (dict_row) or the values
\* by position (tuple_row).
PageVal(rows, total) ==
    [tag |-> "page", rows |-> rows, total |-> total, shape |-> connection.row_factory]
RowsVal(rows) == [tag |-> "rows", rows |-> rows, shape |-> connection.row_factory]
\* A list the method built itself from the rows.
ListVal(items) == [tag |-> "list", rows |-> items]

\* The inputs the calls are tried with.
Usernames == {"ed", "neo", "guest", "ghost"}
Passwords == {"pw1", "pw2"}
AthleteNames == {"ann"}
Places == {"Oslo", "Rome"}
SportNames == {"run", "swim"}
NewRoleNames == {"scout", "editor"}
\* The places and sports lists the results query is tried with.
FilterInputs ==
    { [places |-> {}, sports |-> {}],
      [places |-> {"Rome"}, sports |-> {"run"}],
      [places |-> {"Oslo", "Rome"}, sports |-> {}] }

\* A date string is the sequence of its characters; held is StrVal of one,
\* or None.
Date2023 == <<"2", "0", "2", "3", "-", "0", "5", "-", "0", "1">>
Date2024 == <<"2", "0", "2", "4", "-", "0", "5", "-", "0", "1">>
HeldInputs == {None, StrVal(Date2023), StrVal(Date2024)}

\* The collation of the strings the model uses (the database's order of them).
Alphabet == <<"Oslo", "Rome", "ann", "bob", "run", "swim">>
Collate(s) == CHOOSE i \in 1..Len(Alphabet) : Alphabet[i] = s

SeqToSet(s) == {s[i] : i \in 1..Len(s)}

RECURSIVE SelectRows(_, _)
\* The rows of s whose index satisfies keep, in order.
SelectRows(s, keep) ==
    IF s = <<>> THEN <<>>
    ELSE LET rest == SelectRows(Tail(s), [i \in 1..(Len(s) - 1) |-> keep[i + 1]])
         IN IF keep[1] THEN <<Head(s)>> \o rest ELSE rest

---------------------------------------------------------------------------
(* bcrypt: a hash carries its salt; checkpw hashes the candidate with the  *)
(* salt of the stored hash and compares.                                   *)

Hashpw(password, salt) == [salt |-> salt, digest |-> <<salt, password>>]
Checkpw(password, hashed) == Hashpw(password, hashed.salt) = hashed

---------------------------------------------------------------------------
(* The database at construction time.                                      *)

InitUsers ==
    << [username |-> "ed", password_hashed |-> Hashpw("pw1", "s1"), role_name |-> "editor"],
       [username |-> "neo", password_hashed |-> Hashpw("pw2", "s1"), role_name |-> "theone"],
       [username |-> "guest", password_hashed |-> Hashpw("pw1", "s1"), role_name |-> "viewer"] >>

InitDb ==
    [ Users |-> InitUsers,
      Roles |-> {"editor", "theone", "viewer"},
      Grants |-> {},
      Sports |-> << [id |-> 1, name |-> "run"], [id |-> 2, name |-> "swim"] >>,
      Athletes |-> << [id |-> 1, name |-> "bob", gender |-> "f", height |-> 2],
                      [id |-> 2, name |-> "ann", gender |-> "m", height |-> 1] >>,
      Competitions |-> << [id |-> 1, place |-> "Rome", held |-> StrVal(Date2024), sport_id |-> 2] >>,
      Results |-> << [id |-> 1, athlete_id |-> 1, sport_id |-> 1, competition_id |-> 1, result |-> 2],
                     [id |-> 2, athlete_id |-> 2, sport_id |-> 1, competition_id |-> 1, result |-> 1] >>,
      Genders |-> << [id |-> 1, name |-> "f"], [id |-> 2, name |-> "m"] >>,
      athletes_id_seq |-> 2,
      competitions_id_seq |-> 1 ]

---------------------------------------------------------------------------
(* The connection.                                                         *)

\* pg.connect(self.conn_string, autocommit=True, row_factory=dict_row)
ConstructedConnection ==
    [closed |-> FALSE, autocommit |-> TRUE, row_factory |-> "dict_row"]

\* pg.connect(self.conn_string): psycopg's defaults, a transaction is opened
\* by the first statement and rows are tuples.
OpenedConnection ==
    [closed |-> FALSE, autocommit |-> FALSE, row_factory |-> "tuple_row"]

\* No transaction is open and the connection sees the committed database.
IdleTxn(d) == [status |-> "idle", view |-> d]

\* The database as the connection's next statement sees it.
View == IF txn.status = "intrans" THEN txn.view ELSE db

\* What execute() raises before the statement reaches the tables: the
\* connection is closed, or its transaction is aborted by an earlier error.
ConnErr ==
    IF connection.closed THEN "OperationalError"
    ELSE IF txn.status = "inerror" THEN "InFailedSqlTransaction"
    ELSE "none"

\* The error of the n-th statement of a call whose f-th statement fails.
StmtErr(n, f) ==
    IF ConnErr # "none" THEN ConnErr
    ELSE IF f = n THEN "DatabaseError"
    ELSE "none"

\* The errors of the database and the driver, as opposed to the gateway's own.
DriverErrors == {"OperationalError", "InFailedSqlTransaction", "DatabaseError"}

\* row['column'] on a fetched row: a dict row has the key, a tuple row
\* raises TypeError (tuple indices must be integers).
ByNameErr == IF connection.row_factory = "dict_row" THEN "none" ELSE "TypeError"

\* row[0] on a fetched row: a tuple row has the index, a dict row raises
\* KeyError(0).
ByIndexErr == IF connection.row_factory = "tuple_row" THEN "none" ELSE "KeyError"

---------------------------------------------------------------------------
(* The connection handles.  Every successful pg.connect() of the gateway   *)
(* makes a new handle, numbered in the order they are made; handle is the  *)
(* one self.connection refers to, live the ones made and not closed, and   *)
(* atConnect the ones that were live when open() last called pg.connect(). *)

\* After __init__ has connected (line 18): its handle, live.
ConstructedGateway ==
    [handle |-> 1, opened |-> 1, live |-> {1}, atConnect |-> {}, deleted |-> FALSE]

\* self.connection.close(): the handle self.connection refers to is closed
\* (closing a closed connection does nothing).
CloseConnection(g) == [g EXCEPT !.live = @ \ {g.handle}]

\* open() going straight to pg.connect().
KeepOldConnection(g) == g

\* if self.connection is not None: self.connection.close() (lines 74-75);
\* self.connection is a connection from the constructor on.
CloseOldConnection(g) == CloseConnection(g)

\* self.connection = pg.connect(self.conn_string) (line 76): the new handle
\* is made and assigned.
Connect(g) ==
    [g EXCEPT !.opened = @ + 1, !.live = @ \cup {g.opened + 1},
              !.handle = g.opened + 1, !.atConnect = g.live]

\* pg.connect() raises: no handle is made and self.connection keeps the
\* object it had.
ConnectFails(g) == [g EXCEPT !.atConnect = g.live]

\* connection.closed of the object self.connection refers to.
Closed(g) == g.handle \notin g.live

---------------------------------------------------------------------------
(* The outcome of one call: the database as the call's statements left it, *)
(* the statements issued, whether commit() was reached, and what the       *)
(* caller gets.                                                            *)

Raise(d, stmts, exc, site) ==
    [db |-> d, stmts |-> stmts, committed |-> FALSE, dberr |-> exc \in DriverErrors,
     outcome |-> "raise", exc |-> exc, site |-> site, caught |-> "none", value |-> None]

Return(d, stmts, committed, value) ==
    [db |-> d, stmts |-> stmts, committed |-> committed, dberr |-> FALSE,
     outcome |-> "return", exc |-> "none", site |-> "none", caught |-> "none",
     value |-> value]

\* except Exception as e: print(e); return None -- the error exc raised at
\* site is caught and the caller gets None.
Swallow(d, stmts, exc, site) ==
    [db |-> d, stmts |-> stmts, committed |-> FALSE, dberr |-> exc \in DriverErrors,
     outcome |-> "return", exc |-> "none", site |-> site, caught |-> exc, value |-> None]

\* The call's effect on the database, the transaction and the record of the
\* last call.  With autocommit every statement that succeeded is committed
\* when it ran; without it the statements are published by commit() only,
\* and a failed statement aborts the transaction until it is ended.
Apply(op, args, r) ==
    /\ connection' = connection
    /\ gateway' = gateway
    /\ db' = IF connection.closed THEN db
             ELSE IF connection.autocommit \/ r.committed THEN r.db
             ELSE db
    /\ txn' = IF connection.closed \/ r.stmts = <<>> THEN txn
              ELSE IF connection.autocommit \/ r.committed THEN IdleTxn(db')
              ELSE IF r.dberr THEN [status |-> "inerror", view |-> db]
              ELSE [status |-> "intrans", view |-> r.db]
    /\ last' = [op |-> op, args |-> args, outcome |-> r.outcome, exc |-> r.exc,
                site |-> r.site, caught |-> r.caught, value |-> r.value,
                stmts |-> r.stmts, pre |-> db, preView |-> View]

---------------------------------------------------------------------------
(* Tables.                                                                 *)

UserIdx(d, username) == {i \in 1..Len(d.Users) : d.Users[i].username = username}
HasUser(d, username) == UserIdx(d, username) # {}
UserOf(d, username) == d.Users[CHOOSE i \in UserIdx(d, username) : TRUE]

\* The allow-list with the read-only role let in.
WriterRolesWithViewer == {"editor", "theone", "viewer"}

\* The literal ["editor", "theone"] of the three mutating methods.
WriterRoles == {"editor", "theone"}

\* SELECT id FROM Sports WHERE name = sport_name: the id, or 0 for no row
\* (the scalar subquery is then NULL and matches nothing).
SportId(d, sport_name) ==
    LET S == {i \in 1..Len(d.Sports) : d.Sports[i].name = sport_name}
    IN IF S = {} THEN 0 ELSE d.Sports[CHOOSE i \in S : TRUE].id

InsertAthlete(d, name, height, gender) ==
    [d EXCEPT !.Athletes = Append(@, [id |-> d.athletes_id_seq + 1, name |-> name,
                                       gender |-> gender, height |-> height]),
              !.athletes_id_seq = @ + 1]

InsertCompetition(d, place, held) ==
    [d EXCEPT !.Competitions = Append(@, [id |-> d.competitions_id_seq + 1, place |-> place,
                                           held |-> held, sport_id |-> 0]),
              !.competitions_id_seq = @ + 1]

DeleteResultsOfSport(d, sport_name) ==
    LET sid == SportId(d, sport_name)
    IN [d EXCEPT !.Results =
            SelectRows(@, [i \in 1..Len(@) |-> sid = 0 \/ @[i].sport_id # sid])]

DeleteCompetitionsOfSport(d, sport_name) ==
    LET sid == SportId(d, sport_name)
    IN [d EXCEPT !.Competitions =
            SelectRows(@, [i \in 1..Len(@) |-> sid = 0 \/ @[i].sport_id # sid])]

DeleteSportRow(d, sport_name) ==
    [d EXCEPT !.Sports = SelectRows(@, [i \in 1..Len(@) |-> @[i].name # sport_name])]

\* The rows of the dependency query of delete_sport (lines 554-559).
HasDependencies(d, sport_name) ==
    LET sid == SportId(d, sport_name)
    IN /\ sid # 0
       /\ \/ \E i \in 1..Len(d.Results) : d.Results[i].sport_id = sid
          \/ \E i \in 1..Len(d.Competitions) : d.Competitions[i].sport_id = sid

---------------------------------------------------------------------------
(* int(held.split("-")[0])                                                 *)

Digits == <<"0", "1", "2", "3", "4", "5", "6", "7", "8", "9">>
IsDigit(c) == \E i \in 1..10 : Digits[i] = c
DigitVal(c) == (CHOOSE i \in 1..10 : Digits[i] = c) - 1

\* held.split("-")[0]: the characters before the first "-".
SplitFirst(s) ==
    LET dashes == {i \in 1..Len(s) : s[i] = "-"}
    IN IF dashes = {} THEN s
       ELSE SubSeq(s, 1, (CHOOSE i \in dashes : \A j \in dashes : i <= j) - 1)

\* int() accepts a non-empty run of digits (the only form the inputs take).
IntParses(s) == s # <<>> /\ \A i \in 1..Len(s) : IsDigit(s[i])

RECURSIVE ParseInt(_)
ParseInt(s) ==
    IF s = <<>> THEN 0
    ELSE 10 * ParseInt(SubSeq(s, 1, Len(s) - 1)) + DigitVal(s[Len(s)])

MinYear == 2024

---------------------------------------------------------------------------
(* The mutating methods.                                                   *)

\* add_athlete(username, name, gender, height), lines 243-283.
add_athlete(username, name, gender, height, f) ==
    LET q1 == <<"SELECT Users">>
        q2 == <<"SELECT Users", "INSERT Athletes">>
    IN IF StmtErr(1, f) # "none" THEN Raise(View, q1, StmtErr(1, f), "execute")
       ELSE IF ~HasUser(View, username)
            THEN Raise(View, q1, "Exception", "username_not_found")
       ELSE IF ByNameErr # "none" THEN Raise(View, q1, ByNameErr, "row_access")
       ELSE IF UserOf(View, username).role_name \notin WriterRoles
            THEN Raise(View, q1, "PermissionError", "permission")
       ELSE IF StmtErr(2, f) # "none" THEN Raise(View, q2, StmtErr(2, f), "execute")
       ELSE Return(InsertAthlete(View, name, height, gender), q2, TRUE, None)

\* add_competition(username, place, held=None), lines 375-427.  held is
\* None or a date string.
add_competition(username, place, held, f) ==
    LET q1 == <<"SELECT Users">>
        q2 == <<"SELECT Users", "INSERT Competitions">>
    IN IF StmtErr(1, f) # "none" THEN Raise(View, q1, StmtErr(1, f), "execute")
       ELSE IF ~HasUser(View, username)
            THEN Raise(View, q1, "Exception", "username_not_found")
       ELSE IF ByNameErr # "none" THEN Raise(View, q1, ByNameErr, "row_access")
       ELSE IF UserOf(View, username).role_name \notin WriterRoles
            THEN Raise(View, q1, "PermissionError", "permission")
       ELSE IF held.tag = "None"
            THEN Raise(View, q1, "AttributeError", "held_split")
       ELSE IF ~IntParses(SplitFirst(held.v))
            THEN Raise(View, q1, "ValueError", "held_int")
       ELSE IF ParseInt(SplitFirst(held.v)) < MinYear
            THEN Raise(View, q1, "ValueError", "held_year")
       ELSE IF StmtErr(2, f) # "none" THEN Raise(View, q2, StmtErr(2, f), "execute")
       ELSE LET d == InsertCompetition(View, place, held)
            IN Return(d, q2, TRUE, IntVal(d.competitions_id_seq))

\* delete_sport(username, sport_name, force_delete=False), lines 526-584.
delete_sport(username, sport_name, force_delete, f) ==
    LET q1 == <<"SELECT Users">>
        q2 == Append(q1, "SELECT dependencies")
        q3 == Append(q2, "DELETE Results")
        q4 == Append(q3, "DELETE Competitions")
        d3 == DeleteResultsOfSport(View, sport_name)
        d4 == DeleteCompetitionsOfSport(d3, sport_name)
    IN IF StmtErr(1, f) # "none" THEN Raise(View, q1, StmtErr(1, f), "execute")
       ELSE IF ~HasUser(View, username)
            THEN Raise(View, q1, "Exception", "username_not_found")
       ELSE IF ByIndexErr # "none" THEN Raise(View, q1, ByIndexErr, "row_access")
       ELSE IF UserOf(View, username).role_name \notin WriterRoles
            THEN Raise(View, q1, "PermissionError", "permission")
       ELSE IF StmtErr(2, f) # "none" THEN Raise(View, q2, StmtErr(2, f), "execute")
       ELSE IF HasDependencies(View, sport_name) /\ ~force_delete
            THEN Raise(View, q2, "Exception", "dependencies")
       ELSE IF force_delete
            THEN IF StmtErr(3, f) # "none" THEN Raise(View, q3, StmtErr(3, f), "execute")
                 ELSE IF StmtErr(4, f) # "none" THEN Raise(d3, q4, StmtErr(4, f), "execute")
                 ELSE IF StmtErr(5, f) # "none"
                      THEN Raise(d4, Append(q4, "DELETE Sports"), StmtErr(5, f), "execute")
                 ELSE Return(DeleteSportRow(d4, sport_name), Append(q4, "DELETE Sports"),
                             TRUE, None)
       ELSE IF StmtErr(3, f) # "none"
            THEN Raise(View, Append(q2, "DELETE Sports"), StmtErr(3, f), "execute")
       ELSE Return(DeleteSportRow(View, sport_name), Append(q2, "DELETE Sports"), TRUE, None)

---------------------------------------------------------------------------
(* Authentication and the administrative operation.                        *)

\* check_user_credentials(username, password), lines 101-123.  fetchone()
\* gives None for no row, and None['password_hashed'] raises TypeError
\* inside the try; a password that does not verify falls off the end of
\* the method, which returns None.
check_user_credentials(username, password, f) ==
    LET q1 == <<"SELECT Users">>
    IN IF StmtErr(1, f) # "none" THEN Swallow(View, q1, StmtErr(1, f), "execute")
       ELSE IF ~HasUser(View, username) THEN Swallow(View, q1, "TypeError", "user_none")
       ELSE IF ByNameErr # "none" THEN Swallow(View, q1, ByNameErr, "row_access")
       ELSE IF Checkpw(password, UserOf(View, username).password_hashed)
            THEN Return(View, q1, FALSE, StrVal(UserOf(View, username).role_name))
       ELSE Return(View, q1, FALSE, None)

\* The grants of create_role_and_user, lines 597-598.
GrantInsert(role_name) == {<<role_name, "INSERT", "Competitions">>}
GrantSelect(role_name) ==
    {<<role_name, "SELECT", "Athletes">>, <<role_name, "SELECT", "Results">>}

\* create_role_and_user(conn, role_name, username, password), lines 587-610,
\* on a connection conn of the caller's that is live and not in autocommit
\* (the method ends its work with conn.commit() or conn.rollback()).
\* CREATE ROLE fails for a role that exists and the INSERT for a username
\* that exists.  The outcome's db is what conn has committed.
create_role_and_user(role_name, username, password, salt, f) ==
    LET q1 == <<"CREATE ROLE">>
        q2 == Append(q1, "GRANT INSERT")
        q3 == Append(q2, "GRANT SELECT")
        q4 == Append(q3, "INSERT Users")
        done == [db EXCEPT !.Roles = @ \cup {role_name},
                           !.Grants = @ \cup GrantInsert(role_name) \cup GrantSelect(role_name),
                           !.Users = Append(@, [username |-> username,
                                                password_hashed |-> Hashpw(password, salt),
                                                role_name |-> role_name])]
    IN IF f = 1 \/ role_name \in db.Roles THEN Swallow(db, q1, "DatabaseError", "execute")
       ELSE IF f = 2 THEN Swallow(db, q2, "DatabaseError", "execute")
       ELSE IF f = 3 THEN Swallow(db, q3, "DatabaseError", "execute")
       ELSE IF f = 4 \/ HasUser(db, username) THEN Swallow(db, q4, "DatabaseError", "execute")
       ELSE Return(done, q4, TRUE, None)

---------------------------------------------------------------------------
(* Sorting and paging.                                                     *)

NoSort == [given |-> FALSE, key |-> "none", order |-> "none"]
SortKeyInputs == {"id", "name", "place"}
SortInputs == {NoSort} \cup [given : {TRUE}, key : SortKeyInputs, order : {"asc", "desc"}]

\* The sortable columns of the three paged queries (lines 210, 342, 509).
AthleteColumns == {"id", "name", "gender", "height"}
CompetitionColumns == {"id", "place", "held"}
ResultKeys == {"place", "held", "sport", "athleteid", "name", "result"}

IntColumns == {"id", "height", "athleteid", "result"}
KeyVal(row, key) == IF key \in IntColumns THEN row[key] ELSE Collate(row[key])

\* Whether row a comes before row b under ORDER BY key [DESC].
Before(a, b, key, desc) ==
    IF desc THEN KeyVal(a, key) > KeyVal(b, key) ELSE KeyVal(a, key) < KeyVal(b, key)

RECURSIVE InsertSorted(_, _, _, _)
InsertSorted(sorted, x, key, desc) ==
    IF sorted = <<>> THEN <<x>>
    ELSE IF Before(x, Head(sorted), key, desc) THEN <<x>> \o sorted
    ELSE <<Head(sorted)>> \o InsertSorted(Tail(sorted), x, key, desc)

RECURSIVE OrderBy(_, _, _)
\* ORDER BY key [DESC]; rows with equal keys keep the order of the scan.
OrderBy(rows, key, desc) ==
    IF rows = <<>> THEN <<>>
    ELSE InsertSorted(OrderBy(SubSeq(rows, 1, Len(rows) - 1), key, desc),
                      rows[Len(rows)], key, desc)

Min(a, b) == IF a < b THEN a ELSE b

\* rows[start:end] of Python for 0 <= start <= end.
PySlice(rows, start, end) == SubSeq(rows, start + 1, Min(end, Len(rows)))

\* cur.fetchmany(size) on a cursor that has given out its first pos rows:
\* the next size rows, or as many as are left.
Fetchmany(rows, pos, size) == SubSeq(rows, pos + 1, Min(pos + size, Len(rows)))
AfterFetchmany(rows, pos, size) == Min(pos + size, Len(rows))

\* The offset with the page taken as 0-indexed.
PageStartFromPage(page, items_per_page) == page * items_per_page

\* start = (page-1) * items_per_page
PageStart(page, items_per_page) == (page - 1) * items_per_page

\* The result set of "SELECT * FROM Athletes [ORDER BY key [DESC]]".
AthletesQuery(d, sort_by) ==
    IF sort_by.given THEN OrderBy(d.Athletes, sort_by.key, sort_by.order = "desc")
    ELSE d.Athletes

\* retrieve_athletes_page(page, items_per_page, sort_by), lines 186-241.
retrieve_athletes_page(page, items_per_page, sort_by, f) ==
    LET start == PageStart(page, items_per_page)
        q1 == <<"SELECT Athletes">>
        rows == AthletesQuery(View, sort_by)
        pos == IF start # 0 THEN AfterFetchmany(rows, 0, start) ELSE 0
    IN IF sort_by.given /\ sort_by.key \notin AthleteColumns
       THEN Raise(View, <<>>, "DataError", "sort_key")
       ELSE IF StmtErr(1, f) # "none" THEN Raise(View, q1, StmtErr(1, f), "execute")
       ELSE Return(View, q1, FALSE, PageVal(Fetchmany(rows, pos, items_per_page), Len(rows)))

\* The result set of "SELECT * FROM Competitions WHERE place=%s [ORDER BY ...]".
CompetitionsQuery(d, place, sort_by) ==
    LET found == SelectRows(d.Competitions,
                            [i \in 1..Len(d.Competitions) |-> d.Competitions[i].place = place])
    IN IF sort_by.given THEN OrderBy(found, sort_by.key, sort_by.order = "desc")
       ELSE found

\* retrieve_competitions_from_place_page(place, page, items_per_page, sort_by),
\* lines 319-355.
retrieve_competitions_from_place_page(place, page, items_per_page, sort_by, f) ==
    LET start == PageStart(page, items_per_page)
        end == start + items_per_page
        q1 == <<"SELECT Competitions">>
        rows == CompetitionsQuery(View, place, sort_by)
    IN IF sort_by.given /\ sort_by.key \notin CompetitionColumns
       THEN Raise(View, <<>>, "DataError", "sort_key")
       ELSE IF StmtErr(1, f) # "none" THEN Raise(View, q1, StmtErr(1, f), "execute")
       ELSE Return(View, q1, FALSE, PageVal(PySlice(rows, start, end), Len(rows)))

RowWithId(table, id) == table[CHOOSE i \in 1..Len(table) : table[i].id = id]
HasRowWithId(table, id) == \E i \in 1..Len(table) : table[i].id = id

\* Results JOIN Competitions JOIN Sports JOIN Athletes (lines 487-493).
Joins(d, r) ==
    /\ HasRowWithId(d.Competitions, r.competition_id)
    /\ HasRowWithId(d.Sports, r.sport_id)
    /\ HasRowWithId(d.Athletes, r.athlete_id)

JoinRow(d, r) ==
    [place |-> RowWithId(d.Competitions, r.competition_id).place,
     held |-> RowWithId(d.Competitions, r.competition_id).held,
     sport |-> RowWithId(d.Sports, r.sport_id).name,
     athleteid |-> r.athlete_id,
     name |-> RowWithId(d.Athletes, r.athlete_id).name,
     result |-> r.result]

\* The WHERE clause of lines 494-505: an empty list filters nothing.
Selected(row, places, sports) ==
    /\ places = {} \/ row.place \in places
    /\ sports = {} \/ row.sport \in sports

\* The result set of the query of lines 487-515: ordered only when the key
\* is one of the valid keys and the order is asc or desc.
ResultsQuery(d, places, sports, sort_by) ==
    LET joined == SelectRows(d.Results, [i \in 1..Len(d.Results) |-> Joins(d, d.Results[i])])
        rows == [i \in 1..Len(joined) |-> JoinRow(d, joined[i])]
        found == SelectRows(rows, [i \in 1..Len(rows) |-> Selected(rows[i], places, sports)])
    IN IF sort_by.given /\ sort_by.key \in ResultKeys /\ sort_by.order \in {"asc", "desc"}
       THEN OrderBy(found, sort_by.key, sort_by.order = "desc")
       ELSE found

\* retrieve_results_from_sports_and_places_page(places, sports, page,
\* items_per_page, sort_by), lines 447-524.
retrieve_results_from_sports_and_places_page(places, sports, page, items_per_page, sort_by, f) ==
    LET q1 == <<"SELECT Results">>
        rows == ResultsQuery(View, places, sports, sort_by)
        start == PageStart(page, items_per_page)
        end == start + items_per_page
    IN IF StmtErr(1, f) # "none" THEN Raise(View, q1, StmtErr(1, f), "execute")
       ELSE Return(View, q1, FALSE, PageVal(PySlice(rows, start, end), Len(rows)))

---------------------------------------------------------------------------
(* The unpaged reads.                                                      *)

\* retrieve_all_sports, retrieve_all_results, retrieve_all_genders
\* (lines 126-140, 430-444, 614-628): SELECT * FROM table, fetchall().
retrieve_all(table, f) ==
    LET q1 == <<"SELECT " \o table>>
    IN IF StmtErr(1, f) # "none" THEN Raise(View, q1, StmtErr(1, f), "execute")
       ELSE Return(View, q1, FALSE, RowsVal(View[table]))

RECURSIVE Distinct(_)
Distinct(s) ==
    IF s = <<>> THEN <<>>
    ELSE LET rest == Distinct(SubSeq(s, 1, Len(s) - 1))
         IN IF s[Len(s)] \in SeqToSet(rest) THEN rest ELSE Append(rest, s[Len(s)])

\* retrieve_competition_places, lines 358-372: [p['place'] for p in rows].
retrieve_competition_places(f) ==
    LET q1 == <<"SELECT Competitions">>
        places == Distinct([i \in 1..Len(View.Competitions) |-> View.Competitions[i].place])
    IN IF StmtErr(1, f) # "none" THEN Raise(View, q1, StmtErr(1, f), "execute")
       ELSE IF places # <<>> /\ ByNameErr # "none"
            THEN Raise(View, q1, ByNameErr, "row_access")
       ELSE Return(View, q1, FALSE, ListVal(places))

---------------------------------------------------------------------------
(* The state machine.                                                      *)

\* last while no call's outcome is waiting for the caller.
NoCall ==
    [op |-> "none", args |-> [f |-> 0], outcome |-> "return",
     exc |-> "none", site |-> "none", caught |-> "none", value |-> None,
     stmts |-> <<>>, pre |-> InitDb, preView |-> InitDb]

\* The gateway is synchronous (one call at a time): the caller makes its
\* next call after it has taken the outcome of the last one, and makes none
\* on a gateway that is torn down.
Ready == last = NoCall /\ ~gateway.deleted

\* The gateway after __init__ has connected (lines 10-21).
Init ==
    /\ db = InitDb
    /\ connection = ConstructedConnection
    /\ txn = IdleTxn(InitDb)
    /\ gateway = ConstructedGateway
    /\ last = NoCall

AddAthlete ==
    /\ Ready
    /\ \E username \in Usernames, name \in AthleteNames, f \in 0..2 :
           LET r == add_athlete(username, name, "f", 2, f)
           IN /\ r.db.athletes_id_seq <= MaxAthletes
              /\ Apply("add_athlete",
                       [username |-> username, name |-> name, gender |-> "f", height |-> 2, f |-> f],
                       r)

AddCompetition ==
    /\ Ready
    /\ \E username \in Usernames, place \in Places, held \in HeldInputs, f \in 0..2 :
           LET r == add_competition(username, place, held, f)
           IN /\ r.db.competitions_id_seq <= MaxCompetitions
              /\ Apply("add_competition",
                       [username |-> username, place |-> place, held |-> held, f |-> f], r)

DeleteSport ==
    /\ Ready
    /\ \E username \in Usernames, sport_name \in SportNames, force_delete \in BOOLEAN, f \in 0..5 :
           Apply("delete_sport",
                 [username |-> username, sport_name |-> sport_name,
                  force_delete |-> force_delete, f |-> f],
                 delete_sport(username, sport_name, force_delete, f))

CheckUserCredentials ==
    /\ Ready
    /\ \E username \in Usernames, password \in Passwords, f \in 0..1 :
           Apply("check_user_credentials",
                 [username |-> username, password |-> password, f |-> f],
                 check_user_credentials(username, password, f))

\* The work is done on the caller's connection conn, so the gateway's own
\* connection keeps its transaction; a transaction with nothing pending
\* reads what conn committed.
CreateRoleAndUser ==
    /\ Ready
    /\ \E role_name \in NewRoleNames, f \in 0..4 :
           LET r == create_role_and_user(role_name, "ghost", "pw2", "s2", f)
           IN /\ db' = r.db
              /\ connection' = connection
              /\ gateway' = gateway
              /\ txn' = IF txn.view = db THEN [txn EXCEPT !.view = r.db] ELSE txn
              /\ last' = [op |-> "create_role_and_user",
                          args |-> [role_name |-> role_name, username |-> "ghost",
                                    password |-> "pw2", f |-> f],
                          outcome |-> r.outcome, exc |-> r.exc, site |-> r.site,
                          caught |-> r.caught, value |-> r.value, stmts |-> r.stmts,
                          pre |-> db, preView |-> View]

RetrieveAthletesPage ==
    /\ Ready
    /\ \E page \in 1..MaxPage, items_per_page \in 1..MaxItemsPerPage,
          sort_by \in SortInputs, f \in 0..1 :
           Apply("retrieve_athletes_page",
                 [page |-> page, items_per_page |-> items_per_page,
                  sort_by |-> sort_by, f |-> f],
                 retrieve_athletes_page(page, items_per_page, sort_by, f))

RetrieveCompetitionsFromPlacePage ==
    /\ Ready
    /\ \E place \in Places, page \in 1..MaxPage, items_per_page \in 1..MaxItemsPerPage,
          sort_by \in SortInputs, f \in 0..1 :
           Apply("retrieve_competitions_from_place_page",
                 [place |-> place, page |-> page, items_per_page |-> items_per_page,
                  sort_by |-> sort_by, f |-> f],
                 retrieve_competitions_from_place_page(place, page, items_per_page,
                                                       sort_by, f))

RetrieveResultsFromSportsAndPlacesPage ==
    /\ Ready
    /\ \E filter \in FilterInputs, page \in 1..MaxPage,
          items_per_page \in 1..MaxItemsPerPage, sort_by \in SortInputs, f \in 0..1 :
           Apply("retrieve_results_from_sports_and_places_page",
                 [places |-> filter.places, sports |-> filter.sports, page |-> page,
                  items_per_page |-> items_per_page, sort_by |-> sort_by, f |-> f],
                 retrieve_results_from_sports_and_places_page(filter.places, filter.sports,
                                                              page, items_per_page,
                                                              sort_by, f))

RetrieveAll ==
    /\ Ready
    /\ \E table \in {"Sports", "Results", "Genders"}, f \in 0..1 :
           Apply("retrieve_all", [table |-> table, f |-> f], retrieve_all(table, f))

RetrieveCompetitionPlaces ==
    /\ Ready
    /\ \E f \in 0..1 :
           Apply("retrieve_competition_places", [f |-> f], retrieve_competition_places(f))

\* open(), lines 68-76: the old connection is closed (its open transaction
\* is rolled back), and connect() gives the new one or raises (f = 1),
\* which leaves self.connection the old object.
Open ==
    /\ Ready
    /\ \E f \in 0..1 :
           LET g == IF f = 1 THEN ConnectFails(CloseOldConnection(gateway))
                    ELSE Connect(CloseOldConnection(gateway))
           IN /\ g.opened <= MaxHandles
              /\ gateway' = g
              /\ connection' = IF f = 1 THEN [connection EXCEPT !.closed = Closed(g)]
                               ELSE OpenedConnection
              /\ txn' = IF f = 1 /\ ~Closed(g) THEN txn ELSE IdleTxn(db)
              /\ db' = db
              /\ last' = [op |-> "open", args |-> [f |-> f],
                          outcome |-> IF f = 1 THEN "raise" ELSE "return",
                          exc |-> IF f = 1 THEN "OperationalError" ELSE "none",
                          site |-> IF f = 1 THEN "connect" ELSE "none",
                          caught |-> "none", value |-> None, stmts |-> <<>>,
                          pre |-> db, preView |-> View]

\* close(), lines 79-83.
Close ==
    /\ Ready
    /\ gateway' = CloseConnection(gateway)
    /\ connection' = [connection EXCEPT !.closed = TRUE]
    /\ txn' = IdleTxn(db)
    /\ db' = db
    /\ last' = [op |-> "close", args |-> [f |-> 0], outcome |-> "return", exc |-> "none",
                site |-> "none", caught |-> "none", value |-> None, stmts |-> <<>>,
                pre |-> db, preView |-> View]

\* __del__, lines 24-29: self.connection is not None on a constructed
\* gateway, so it is closed; the object is gone afterwards.
Del ==
    /\ Ready
    /\ gateway' = [CloseConnection(gateway) EXCEPT !.deleted = TRUE]
    /\ connection' = [connection EXCEPT !.closed = TRUE]
    /\ txn' = IdleTxn(db)
    /\ db' = db
    /\ last' = [op |-> "__del__", args |-> [f |-> 0], outcome |-> "return", exc |-> "none",
                site |-> "none", caught |-> "none", value |-> None, stmts |-> <<>>,
                pre |-> db, preView |-> View]

\* The caller takes the outcome of the last call.
TakeOutcome ==
    /\ last # NoCall
    /\ last' = NoCall
    /\ UNCHANGED <<db, connection, txn, gateway>>

Next ==
    \/ AddAthlete
    \/ AddCompetition
    \/ DeleteSport
    \/ CheckUserCredentials
    \/ CreateRoleAndUser
    \/ RetrieveAthletesPage
    \/ RetrieveCompetitionsFromPlacePage
    \/ RetrieveResultsFromSportsAndPlacesPage
    \/ RetrieveAll
    \/ RetrieveCompetitionPlaces
    \/ Open
    \/ Close
    \/ Del
    \/ TakeOutcome

Spec == Init /\ [][Next]_vars

---------------------------------------------------------------------------
(* Vocabulary of the properties.                                           *)

\* The role allow-list of the specification's glossary.
AllowList == {"editor", "theone"}

Authorized(d, username) ==
    HasUser(d, username) /\ UserOf(d, username).role_name \in AllowList

MutatingOps == {"add_athlete", "add_competition", "delete_sport"}
PagedOps == {"retrieve_athletes_page", "retrieve_competitions_from_place_page",
             "retrieve_results_from_sports_and_places_page"}

IsMutatingStatement(q) ==
    q \in {"INSERT Athletes", "INSERT Competitions", "DELETE Results",
           "DELETE Competitions", "DELETE Sports"}

TablesOf(d) == <<d.Athletes, d.Competitions, d.Sports, d.Results>>

\* The four tables are, committed and as the connection sees them, what
\* they were before the last call.
TablesUnchanged ==
    /\ TablesOf(db) = TablesOf(last.pre)
    /\ TablesOf(View) = TablesOf(last.preView)

\* No statement of the last call failed in the database or the driver.
NoDriverError == last.exc \notin DriverErrors /\ last.caught \notin DriverErrors

\* The sport and every row that depends on it are gone / are all still there.
SportAndDependentsGone(d, before, sport_name) ==
    LET sid == SportId(before, sport_name)
    IN /\ SportId(d, sport_name) = 0
       /\ \A i \in 1..Len(d.Results) : d.Results[i].sport_id # sid
       /\ \A i \in 1..Len(d.Competitions) : d.Competitions[i].sport_id # sid

SportAndDependentsKept(d, before) ==
    /\ d.Sports = before.Sports
    /\ d.Results = before.Results
    /\ d.Competitions = before.Competitions

\* The last call inserted exactly one Competitions row and returned its id.
OneCompetitionInserted ==
    /\ last.outcome = "return"
    /\ Len(db.Competitions) = Len(last.pre.Competitions) + 1
    /\ SubSeq(db.Competitions, 1, Len(last.pre.Competitions)) = last.pre.Competitions
    /\ db.Competitions[Len(db.Competitions)].place = last.args.place
    /\ db.Competitions[Len(db.Competitions)].held = last.args.held
    /\ last.value = IntVal(db.Competitions[Len(db.Competitions)].id)
    /\ \A i \in 1..Len(last.pre.Competitions) :
           last.pre.Competitions[i].id # db.Competitions[Len(db.Competitions)].id

---------------------------------------------------------------------------
(* C1 *)

\* C1: a call of add_athlete, add_competition or delete_sport by a username
\* that matches no User row, or a User whose role is outside the allow-list,
\* raises, issues no INSERT or DELETE, and leaves Athletes, Competitions,
\* Sports and Results as they were.
C1_UnauthorizedRejected ==
    (last.op \in MutatingOps /\ ~Authorized(last.preView, last.args.username)) =>
        /\ last.outcome = "raise"
        /\ \A i \in 1..Len(last.stmts) : ~IsMutatingStatement(last.stmts[i])
        /\ TablesUnchanged

\* A user with a role outside the allow-list was refused at the role check.
C1_Witness ==
    /\ last.op \in MutatingOps
    /\ HasUser(last.preView, last.args.username)
    /\ ~Authorized(last.preView, last.args.username)
    /\ last.exc = "PermissionError"

---------------------------------------------------------------------------
(* C2 *)

\* C2: delete_sport by an authorized user with force_delete = false on a
\* sport that has a dependent Result or Competition row fails with the
\* dependency-conflict error and leaves Sports, Results and Competitions
\* unchanged (when no statement fails in the database).
C2_DependencyConflict ==
    ( /\ last.op = "delete_sport"
      /\ Authorized(last.preView, last.args.username)
      /\ ~last.args.force_delete
      /\ HasDependencies(last.preView, last.args.sport_name)
      /\ NoDriverError ) =>
        /\ last.outcome = "raise"
        /\ last.site = "dependencies"
        /\ SportAndDependentsKept(db, last.pre)

---------------------------------------------------------------------------
(* C3 *)

\* C3: delete_sport by an authorized user with force_delete = true deletes
\* the dependent rows and the sport as one unit: after the call the sport
\* and its dependents are all gone or all still there, and they are gone
\* when no statement of the call failed.
C3_ForceDeleteAtomic ==
    ( /\ last.op = "delete_sport"
      /\ Authorized(last.preView, last.args.username)
      /\ last.args.force_delete
      /\ SportId(last.preView, last.args.sport_name) # 0 ) =>
        /\ \/ SportAndDependentsGone(db, last.pre, last.args.sport_name)
           \/ SportAndDependentsKept(db, last.pre)
        /\ NoDriverError => SportAndDependentsGone(db, last.pre, last.args.sport_name)

---------------------------------------------------------------------------
(* C4 *)

YearBelow2024(held) == held = StrVal(Date2023)

\* C4: add_competition by an authorized user with a held date fails with
\* the validation error and inserts nothing when the year is below 2024,
\* and otherwise inserts exactly one Competitions row and returns its id
\* (when no statement fails in the database).
C4_HeldYearValidated ==
    ( /\ last.op = "add_competition"
      /\ Authorized(last.preView, last.args.username)
      /\ last.args.held # None
      /\ NoDriverError ) =>
        IF YearBelow2024(last.args.held)
        THEN /\ last.outcome = "raise"
             /\ last.exc = "ValueError"
             /\ db.Competitions = last.pre.Competitions
        ELSE OneCompetitionInserted

---------------------------------------------------------------------------
(* C5 *)

\* C5: add_competition by an authorized user with no held date inserts
\* exactly one Competitions row and returns its id (when no statement fails
\* in the database).
C5_HeldOptional ==
    ( /\ last.op = "add_competition"
      /\ Authorized(last.preView, last.args.username)
      /\ last.args.held = None
      /\ NoDriverError ) =>
        OneCompetitionInserted

---------------------------------------------------------------------------
(* C6 *)

\* C6: check_user_credentials never raises; it returns the stored role when
\* the username matches a User row, the password verifies against the row's
\* hash and the lookup did not fail, and None in every other case.
C6_CredentialsDecideRole ==
    last.op = "check_user_credentials" =>
        /\ last.outcome = "return"
        /\ IF /\ HasUser(last.preView, last.args.username)
              /\ Checkpw(last.args.password,
                         UserOf(last.preView, last.args.username).password_hashed)
              /\ NoDriverError
           THEN last.value = StrVal(UserOf(last.preView, last.args.username).role_name)
           ELSE last.value = None

---------------------------------------------------------------------------
(* C7 *)

\* The result set of the last paged call, without and with its ORDER BY.
LastUnordered ==
    IF last.op = "retrieve_athletes_page" THEN AthletesQuery(last.preView, NoSort)
    ELSE IF last.op = "retrieve_competitions_from_place_page"
         THEN CompetitionsQuery(last.preView, last.args.place, NoSort)
    ELSE ResultsQuery(last.preView, last.args.places, last.args.sports, NoSort)

LastResultSet ==
    IF last.op = "retrieve_athletes_page" THEN AthletesQuery(last.preView, last.args.sort_by)
    ELSE IF last.op = "retrieve_competitions_from_place_page"
         THEN CompetitionsQuery(last.preView, last.args.place, last.args.sort_by)
    ELSE ResultsQuery(last.preView, last.args.places, last.args.sports, last.args.sort_by)

\* What the last paged call returns for page p, its other arguments kept.
LastPageRows(p) ==
    IF last.op = "retrieve_athletes_page"
    THEN retrieve_athletes_page(p, last.args.items_per_page, last.args.sort_by, 0).value.rows
    ELSE IF last.op = "retrieve_competitions_from_place_page"
         THEN retrieve_competitions_from_place_page(last.args.place, p, last.args.items_per_page,
                                                    last.args.sort_by, 0).value.rows
    ELSE retrieve_results_from_sports_and_places_page(last.args.places, last.args.sports, p,
                                                      last.args.items_per_page,
                                                      last.args.sort_by, 0).value.rows

RECURSIVE ConcatPages(_)
ConcatPages(n) == IF n = 0 THEN <<>> ELSE ConcatPages(n - 1) \o LastPageRows(n)

CeilDiv(a, b) == (a + b - 1) \div b

Occurrences(rows, x) == Cardinality({i \in 1..Len(rows) : rows[i] = x})

SameRows(a, b) ==
    /\ Len(a) = Len(b)
    /\ \A i \in 1..Len(a) : Occurrences(a, a[i]) = Occurrences(b, a[i])

\* The sort key the last paged call orders by, if it orders at all.
LastOrders ==
    /\ last.args.sort_by.given
    /\ last.op = "retrieve_results_from_sports_and_places_page"
           => last.args.sort_by.key \in ResultKeys

InSortOrder(rows, key, order) ==
    \A i, j \in 1..Len(rows) :
        i < j => IF order = "desc" THEN KeyVal(rows[i], key) >= KeyVal(rows[j], key)
                 ELSE KeyVal(rows[i], key) <= KeyVal(rows[j], key)

\* C7: a paged call with page >= 1 and items_per_page >= 1 that returns
\* gives at most items_per_page rows, namely the rows start+1 .. start +
\* items_per_page (start = (page-1) * items_per_page) of the ordered result
\* set as far as it reaches, with the size of the whole result set as the
\* total; the result set holds the selected rows in the requested order; and
\* the pages 1 .. ceil(total / items_per_page) put end to end are the result
\* set.
C7_PagesPartitionResultSet ==
    (last.op \in PagedOps /\ last.outcome = "return") =>
        LET R == LastResultSet
            n == last.args.items_per_page
            start == (last.args.page - 1) * n
            got == last.value.rows
            k == IF Len(R) - start < 0 THEN 0
                 ELSE IF Len(R) - start < n THEN Len(R) - start ELSE n
        IN /\ Len(got) <= n
           /\ got = [i \in 1..k |-> R[start + i]]
           /\ last.value.total = Len(R)
           /\ SameRows(R, LastUnordered)
           /\ LastOrders => InSortOrder(R, last.args.sort_by.key, last.args.sort_by.order)
           /\ ConcatPages(CeilDiv(Len(R), n)) = R

\* A second page that holds rows of a sorted result set was returned.
C7_Witness ==
    /\ last.op \in PagedOps
    /\ last.outcome = "return"
    /\ last.args.page = 2
    /\ last.args.sort_by.given
    /\ last.args.sort_by.order = "desc"
    /\ last.value.rows # <<>>
    /\ last.value.total > last.args.items_per_page

---------------------------------------------------------------------------
(* C8 *)

SortableColumns(op) ==
    IF op = "retrieve_athletes_page" THEN {"id", "name", "gender", "height"}
    ELSE IF op = "retrieve_competitions_from_place_page" THEN {"id", "place", "held"}
    ELSE {"place", "held", "sport", "athleteid", "name", "result"}

\* C8: a paged call whose sort key is not a sortable column of its entity
\* fails with the validation error and issues no query.
C8_InvalidSortKeyRejected ==
    ( /\ last.op \in PagedOps
      /\ last.args.sort_by.given
      /\ last.args.sort_by.key \notin SortableColumns(last.op) ) =>
        /\ last.outcome = "raise"
        /\ last.site = "sort_key"
        /\ last.stmts = <<>>

---------------------------------------------------------------------------
(* C9 *)

\* C9: no operation but check_user_credentials returns normally after an
\* error inside it, and create_role_and_user returns normally only when the
\* role, its grants and the User row exist.
C9_FailuresAreRaised ==
    /\ (last.op \notin {"none", "check_user_credentials"} /\ last.caught # "none")
           => last.outcome = "raise"
    /\ (last.op = "create_role_and_user" /\ last.outcome = "return") =>
           /\ last.args.role_name \in db.Roles
           /\ GrantInsert(last.args.role_name) \cup GrantSelect(last.args.role_name)
                  \subseteq db.Grants
           /\ HasUser(db, last.args.username)
           /\ UserOf(db, last.args.username).role_name = last.args.role_name

---------------------------------------------------------------------------
(* C10 *)

\* The cause of the failure of a call of a mutating method, by the
\* specification's order of checks: the username is unknown, the role is
\* outside the allow-list, the input is invalid (a year below 2024), the
\* sport has dependents and no cascade was asked for.
Cause(d, op, args) ==
    IF ~HasUser(d, args.username) THEN "not_found"
    ELSE IF ~Authorized(d, args.username) THEN "permission"
    ELSE IF op = "add_competition" /\ YearBelow2024(args.held) THEN "validation"
    ELSE IF op = "delete_sport" /\ ~args.force_delete /\ HasDependencies(d, args.sport_name)
         THEN "dependency"
    ELSE "none"

\* The error kinds the gateway gives, in this state, to a call that fails
\* for the given cause with no failure in the database.
KindsOf(cause) ==
    { add_athlete(u, "ann", "f", 2, 0).exc :
          u \in {u \in Usernames : Cause(View, "add_athlete", [username |-> u]) = cause} }
    \cup
    { add_competition(c[1], "Rome", c[2], 0).exc :
          c \in {c \in Usernames \X (HeldInputs \ {None}) :
                     Cause(View, "add_competition", [username |-> c[1], held |-> c[2]]) = cause} }
    \cup
    { delete_sport(c[1], c[2], c[3], 0).exc :
          c \in {c \in Usernames \X SportNames \X BOOLEAN :
                     Cause(View, "delete_sport",
                           [username |-> c[1], sport_name |-> c[2], force_delete |-> c[3]]) = cause} }

\* C10: the last failed call of a mutating method has an error kind that no
\* call failing for another of the four causes gets.
C10_CausesHaveDistinctKinds ==
    ( /\ last.op \in MutatingOps
      /\ last.outcome = "raise"
      /\ NoDriverError
      /\ ConnErr = "none"
      /\ Cause(last.preView, last.op, last.args) # "none" ) =>
        \A other \in {"not_found", "permission", "validation", "dependency"} :
            other # Cause(last.preView, last.op, last.args) => last.exc \notin KindsOf(other)

---------------------------------------------------------------------------
(* Lifetime of the connection handles.                                     *)

\* The calls that end a connection without making a new one.
ReleasingOps == {"close", "__del__"}

\* self.connection refers to the handle the gateway made last.
HandleIsNewest == gateway.handle = gateway.opened

\* C11: after any sequence of open(), close() and teardown on a constructed
\* gateway, a failing connect included, at most one handle the gateway
\* opened is live, and it is the one self.connection refers to; when open()
\* calls connect no handle of the gateway is live (the old one was closed
\* first); after close() or teardown, and on a closed connection generally,
\* no handle the gateway opened is live.
C11_AtMostOneLiveHandle ==
    /\ Cardinality(gateway.live) <= 1
    /\ gateway.live \subseteq {gateway.handle}
    /\ HandleIsNewest
    /\ connection.closed <=> Closed(gateway)
    /\ last.op = "open" => gateway.atConnect = {}
    /\ (last.op = "open" /\ last.outcome = "raise") => gateway.live = {}
    /\ last.op \in ReleasingOps => gateway.live = {}
    /\ gateway.deleted => gateway.live = {}

\* open() has succeeded for the second time, the last time after a connect
\* that did not fail, and the gateway is then torn down: every handle it
\* made, the constructor's included, has been live and is closed.
C11_Witness ==
    /\ last.op = "__del__"
    /\ gateway.deleted
    /\ gateway.opened >= 3
    /\ connection.row_factory = "tuple_row"
    /\ gateway.live = {}

---------------------------------------------------------------------------
(* The connection open() makes against the constructor's.                  *)

\* The reads that return fetched rows.
ReadOps == PagedOps \cup {"retrieve_all"}

\* The call ran on a connection that was not closed and none of its own
\* statements failed in the database.
RanCleanOnLiveConnection ==
    /\ ~connection.closed
    /\ last.exc # "DatabaseError"
    /\ last.caught # "DatabaseError"

\* The last call inserted exactly one Athletes row, the one it was given.
OneAthleteInserted ==
    /\ last.outcome = "return"
    /\ Len(db.Athletes) = Len(last.pre.Athletes) + 1
    /\ SubSeq(db.Athletes, 1, Len(last.pre.Athletes)) = last.pre.Athletes
    /\ db.Athletes[Len(db.Athletes)].name = last.args.name
    /\ db.Athletes[Len(db.Athletes)].gender = last.args.gender
    /\ db.Athletes[Len(db.Athletes)].height = last.args.height

\* C12: a connection that is not closed, whether the constructor or open()
\* made it, has autocommit on and returns rows as column-name mappings; so
\* on it a read whose statement does not fail is not refused by the
\* connection and returns its rows as mappings,
\* and add_athlete, and add_competition with a date of 2024 or later, by a
\* user on the allow-list insert their row when no statement of theirs
\* fails, as they do on the constructor's connection.
C12_OpenConfiguresAsConstructor ==
    /\ ~connection.closed =>
           /\ connection.autocommit = ConstructedConnection.autocommit
           /\ connection.row_factory = ConstructedConnection.row_factory
    /\ (last.op \in ReadOps /\ RanCleanOnLiveConnection) =>
           /\ last.exc \notin DriverErrors
           /\ last.outcome = "return" =>
                  last.value.shape = ConstructedConnection.row_factory
    /\ ( /\ last.op = "add_athlete"
         /\ Authorized(last.preView, last.args.username)
         /\ RanCleanOnLiveConnection ) => OneAthleteInserted
    /\ ( /\ last.op = "add_competition"
         /\ Authorized(last.preView, last.args.username)
         /\ last.args.held = StrVal(Date2024)
         /\ RanCleanOnLiveConnection ) => OneCompetitionInserted

====
